---- MODULE Spec2Model ----
(***************************************************************************)
(* Model of the MMIO NS 16550 UART driver of src/src/lib.rs.               *)
(*                                                                         *)
(* The driver is one struct (UART, holding base_addr) with four            *)
(* operations: new, size, send_byte and read_byte.  Every register access  *)
(* goes through write_reg / read_reg, which are volatile one-byte accesses *)
(* at base_addr + reg.  The device is a register file of eight bytes that  *)
(* the hardware may change between any two accesses of the driver.         *)
(*                                                                         *)
(* One action is one volatile register access of the driver (together with *)
(* the control flow up to the next access or the return), or one change of *)
(* the device.  Per call the model records the accesses the call has made: *)
(* the writes in order (wlog), the number of reads per address (reads) and *)
(* the most recent access (last).                                          *)
(***************************************************************************)
EXTENDS Integers, Sequences, FiniteSets, TLC

VARIABLES
    devBase,      \* address at which the device's register window is mapped
    mem,          \* the register file: window address -> byte
    uart,         \* << >> before construction, else <<[base_addr |-> a]>>
    op,           \* operation in progress or last returned
    pc,           \* position of the driver inside op
    i,            \* loop iterations completed (writes completed, in new)
    to_send,      \* argument of send_byte
    result,       \* value returned by the last call
    wlog,         \* register writes of the current call, in order
    reads,        \* register reads of the current call, per address
    last,         \* most recent register access of the current call
                  \* (val is the value written; 0 for a read)
    first_ready,  \* poll number at which the device first reported ready
    dev,          \* a 16550 behind the same bus, with its divisor latch
    prev_timeout, \* the previous send_byte / read_byte call timed out
    th,           \* two callers sharing one UART: caller -> its call
    hazard        \* what the device suffered from unserialized callers

\* the variables only one of the further specifications moves
ext == <<dev, prev_timeout, th, hazard>>

vars == <<devBase, mem, uart, op, pc, i, to_send, result, wlog, reads, last,
          first_ready, dev, prev_timeout, th, hazard>>

----------------------------------------------------------------------------
(* Constants of the driver                                                 *)

REG_TOTAL_SIZE == 8

REG_DATA == 0

REG_DIVISOR_LSB == 0

REG_DIVISOR_MSB == 1

REG_IRQ_EN == 1

REG_FIFO_CONTROL == 2

REG_LINE_CONTROL == 3

\* fault: the modem status register (offset 6) taken for modem control
REG_MODEM_CONTROL_msr == 4 + 2

REG_MODEM_CONTROL == 4

REG_LINE_STATUS == 5

\* 1 << 7
LINE_CONTROL_DLAB == 128

\* 1 << 0
LINE_STATUS_DR == 1

\* 1 << 5
LINE_STATUS_THRE == 32

\* fault: an inclusive range, 0..=1000
LOOP_MAX_inclusive == 1000 + 1

LOOP_MAX == 1000

----------------------------------------------------------------------------
(* Bounds of the model                                                     *)

\* number of distinct bytes a caller sends / the device receives
NumBytes == 2

Byte == 0..255

\* 0x41, 0x42, ...
TxBytes == { 65 + j : j \in 0..(NumBytes - 1) }

\* bytes arriving in the receive buffer: 0x42, 0x43, ...
RxBytes == { 66 + j : j \in 0..(NumBytes - 1) }

\* valid, mapped windows at which a device may sit: 0x10000000, 0x10000100
BaseAddrs == { 268435456, 268435712 }

\* values the device gives its line status register: every combination of
\* data-ready (bit 0) and transmit-holding-empty (bit 5); 0xDE has every
\* bit but these two
StatusVals == { 1, 32, 33, 222 }

\* contents of the control and data registers before the driver first
\* touches the device
InitFills == { 0, 255 }

----------------------------------------------------------------------------
(* Bit operations on u8                                                    *)

RECURSIVE BitAndN(_, _, _)
BitAndN(a, b, n) ==
    IF n = 0 THEN 0
    ELSE (IF a % 2 = 1 /\ b % 2 = 1 THEN 1 ELSE 0)
         + 2 * BitAndN(a \div 2, b \div 2, n - 1)

\* a & b on u8
BitAnd(a, b) == BitAndN(a, b, 8)

----------------------------------------------------------------------------
(* Results                                                                 *)

NoResult == [tag |-> "none", val |-> 0, fault |-> "none"]

Ok(v) == [tag |-> "Ok", val |-> v, fault |-> "none"]

Err(f) == [tag |-> "Err", val |-> 0, fault |-> f]

\* size() returns a plain usize
Plain(v) == [tag |-> "usize", val |-> v, fault |-> "none"]

NoAccess == [kind |-> "none", addr |-> 0, val |-> 0]

Window == devBase..(devBase + REG_TOTAL_SIZE - 1)

self == uart[1]

----------------------------------------------------------------------------
(* Register access primitives                                              *)

\* address write_reg / read_reg compute for register reg
RegAddr(reg) == self.base_addr + reg

\* value a volatile read of register reg returns
read_reg(reg) == mem[RegAddr(reg)]

\* effect of write_reg(reg, val) on the device and on the call's record
write_reg(reg, val) ==
    /\ mem' = [mem EXCEPT ![RegAddr(reg)] = val]
    /\ wlog' = Append(wlog, [addr |-> RegAddr(reg), val |-> val])
    /\ last' = [kind |-> "W", addr |-> RegAddr(reg), val |-> val]

\* fault: the transmit poll tests the data-ready bit
is_transmit_empty_dr(val) == BitAnd(val, LINE_STATUS_DR) # 0

\* fault: the transmit poll forgets the mask
is_transmit_empty_nomask(val) == val # 0

\* fault: the transmit poll takes a clear bit for an empty register
is_transmit_empty_inverted(val) == BitAnd(val, LINE_STATUS_THRE) = 0

\* val & LINE_STATUS_THRE != 0
is_transmit_empty(val) == BitAnd(val, LINE_STATUS_THRE) # 0

\* fault: the receive poll tests the transmitter-empty bit
is_data_ready_thre(val) == BitAnd(val, LINE_STATUS_THRE) # 0

\* val & LINE_STATUS_DR != 0
is_data_ready(val) == BitAnd(val, LINE_STATUS_DR) # 0

\* what the device reports in a status value, by the operation polling it:
\* transmit-holding-register-empty is bit 5, data-ready is bit 0
Reported(o, val) ==
    \/ o = "send_byte" /\ (val \div 32) % 2 = 1
    \/ o = "read_byte" /\ val % 2 = 1

\* number of status polls the current call has made
Polls == reads[devBase + 5]

\* first_ready after a poll that read val
NoteReady(val) ==
    first_ready' = IF first_ready = 0 /\ Reported(op, val)
                   THEN Polls + 1 ELSE first_ready

\* fault: the loop counter lives on from call to call
BeginCall_KeepsCount(o, arg) ==
    /\ op' = o
    /\ to_send' = arg
    /\ i' = i
    /\ wlog' = << >>
    /\ reads' = [a \in Window |-> 0]
    /\ last' = NoAccess
    /\ first_ready' = 0

\* a call starts with an empty record
BeginCall(o, arg) ==
    /\ op' = o
    /\ to_send' = arg
    /\ i' = 0
    /\ wlog' = << >>
    /\ reads' = [a \in Window |-> 0]
    /\ last' = NoAccess
    /\ first_ready' = 0

----------------------------------------------------------------------------
(* UART::new                                                               *)

\* fault: the divisor low byte is written before DLAB is set
NewProgram_DivisorFirst ==
    << [reg |-> REG_IRQ_EN,        val |-> 0],
       [reg |-> REG_DIVISOR_LSB,   val |-> 3],
       [reg |-> REG_LINE_CONTROL,  val |-> LINE_CONTROL_DLAB],
       [reg |-> REG_DIVISOR_MSB,   val |-> 0],
       [reg |-> REG_LINE_CONTROL,  val |-> 3],
       [reg |-> REG_FIFO_CONTROL,  val |-> 199],
       [reg |-> REG_MODEM_CONTROL, val |-> 11],
       [reg |-> REG_IRQ_EN,        val |-> 1] >>

\* fault: the frame format is written with DLAB left set (0x83)
NewProgram_DlabStays ==
    << [reg |-> REG_IRQ_EN,        val |-> 0],
       [reg |-> REG_LINE_CONTROL,  val |-> LINE_CONTROL_DLAB],
       [reg |-> REG_DIVISOR_LSB,   val |-> 3],
       [reg |-> REG_DIVISOR_MSB,   val |-> 0],
       [reg |-> REG_LINE_CONTROL,  val |-> LINE_CONTROL_DLAB + 3],
       [reg |-> REG_FIFO_CONTROL,  val |-> 199],
       [reg |-> REG_MODEM_CONTROL, val |-> 11],
       [reg |-> REG_IRQ_EN,        val |-> 1] >>

\* the register writes of UART::new, in program order
NewProgram ==
    << [reg |-> REG_IRQ_EN,        val |-> 0],
       [reg |-> REG_LINE_CONTROL,  val |-> LINE_CONTROL_DLAB],
       [reg |-> REG_DIVISOR_LSB,   val |-> 3],
       [reg |-> REG_DIVISOR_MSB,   val |-> 0],
       [reg |-> REG_LINE_CONTROL,  val |-> 3],
       [reg |-> REG_FIFO_CONTROL,  val |-> 199],
       [reg |-> REG_MODEM_CONTROL, val |-> 11],
       [reg |-> REG_IRQ_EN,        val |-> 1] >>

\* fault: construction reports a fault
NewReturn_Fault == Err("TxNotEmpty")

\* the value UART::new returns once its writes are done
NewReturn == Ok(self.base_addr)

\* let uart = UART { base_addr };
NewCall ==
    /\ pc \in {"start", "ret"}
    /\ uart' = << [base_addr |-> devBase] >>
    /\ pc' = "new"
    /\ BeginCall("new", 0)
    /\ result' = NoResult
    /\ UNCHANGED <<devBase, mem>>

\* one uart.write_reg(..) of UART::new; the last one is followed by Ok(uart)
NewWrite ==
    /\ pc = "new"
    /\ i < Len(NewProgram)
    /\ write_reg(NewProgram[i + 1].reg, NewProgram[i + 1].val)
    /\ i' = i + 1
    /\ IF i + 1 = Len(NewProgram)
       THEN pc' = "ret" /\ result' = NewReturn
       ELSE pc' = "new" /\ result' = result
    /\ UNCHANGED <<devBase, uart, op, to_send, reads, first_ready>>

----------------------------------------------------------------------------
(* UART::size                                                              *)

\* fault: size() counts the registers the driver uses
size_used == REG_LINE_STATUS + 1

\* pub fn size(&self) -> usize { REG_TOTAL_SIZE }
size == REG_TOTAL_SIZE

Size ==
    /\ pc = "ret"
    /\ uart # << >>
    /\ BeginCall("size", 0)
    /\ result' = Plain(size)
    /\ pc' = "ret"
    /\ UNCHANGED <<devBase, mem, uart>>

----------------------------------------------------------------------------
(* UART::send_byte                                                         *)

\* fault: the transmit timeout reports the receive fault
send_timeout_rx == Err("DataNotReady")

\* what send_byte returns when the loop runs out
send_timeout == Err("TxNotEmpty")

\* fault: the byte goes to offset 1 instead of the data register
send_write_irq(x) == [reg |-> REG_IRQ_EN, val |-> x]

\* the register and value send_byte writes once the transmitter is empty
send_write(x) == [reg |-> REG_DATA, val |-> x]

SendCall(x) ==
    /\ pc = "ret"
    /\ uart # << >>
    /\ BeginCall("send_byte", x)
    /\ result' = NoResult
    /\ pc' = "poll"
    /\ UNCHANGED <<devBase, mem, uart>>

\* one iteration of the loop up to its register write:
\* if self.is_transmit_empty() == true { .. }, else the next iteration or,
\* after LOOP_MAX iterations, Err(Fault::TxNotEmpty)
SendPoll ==
    /\ pc = "poll"
    /\ op = "send_byte"
    /\ i < LOOP_MAX
    /\ LET val == read_reg(REG_LINE_STATUS) IN
       /\ reads' = [reads EXCEPT ![RegAddr(REG_LINE_STATUS)] = @ + 1]
       /\ last' = [kind |-> "R", addr |-> RegAddr(REG_LINE_STATUS), val |-> 0]
       /\ NoteReady(val)
       /\ i' = i + 1
       /\ IF is_transmit_empty(val)
          THEN pc' = "hit" /\ result' = result
          ELSE IF i + 1 < LOOP_MAX
               THEN pc' = "poll" /\ result' = result
               ELSE pc' = "ret" /\ result' = send_timeout
    /\ UNCHANGED <<devBase, mem, uart, op, to_send, wlog>>

\* self.write_reg(REG_DATA, to_send); return Ok(());
SendWrite ==
    /\ pc = "hit"
    /\ op = "send_byte"
    /\ write_reg(send_write(to_send).reg, send_write(to_send).val)
    /\ pc' = "ret"
    /\ result' = Ok(0)
    /\ UNCHANGED <<devBase, uart, op, i, to_send, reads, first_ready>>

----------------------------------------------------------------------------
(* UART::read_byte                                                         *)

\* fault: the receive timeout reports the transmit fault
read_timeout_tx == Err("TxNotEmpty")

\* what read_byte returns when the loop runs out
read_timeout == Err("DataNotReady")

\* fault: read_byte returns the status register
read_source_status == REG_LINE_STATUS

\* the register read_byte reads once data is ready
read_source == REG_DATA

ReadCall ==
    /\ pc = "ret"
    /\ uart # << >>
    /\ BeginCall("read_byte", 0)
    /\ result' = NoResult
    /\ pc' = "poll"
    /\ UNCHANGED <<devBase, mem, uart>>

\* one iteration of the loop up to its read of the data register:
\* if self.is_data_ready() == true { .. }, else the next iteration or,
\* after LOOP_MAX iterations, Err(Fault::DataNotReady)
ReadPoll ==
    /\ pc = "poll"
    /\ op = "read_byte"
    /\ i < LOOP_MAX
    /\ LET val == read_reg(REG_LINE_STATUS) IN
       /\ reads' = [reads EXCEPT ![RegAddr(REG_LINE_STATUS)] = @ + 1]
       /\ last' = [kind |-> "R", addr |-> RegAddr(REG_LINE_STATUS), val |-> 0]
       /\ NoteReady(val)
       /\ i' = i + 1
       /\ IF is_data_ready(val)
          THEN pc' = "hit" /\ result' = result
          ELSE IF i + 1 < LOOP_MAX
               THEN pc' = "poll" /\ result' = result
               ELSE pc' = "ret" /\ result' = read_timeout
    /\ UNCHANGED <<devBase, mem, uart, op, to_send, wlog>>

\* return Ok(self.read_reg(REG_DATA));
ReadData ==
    /\ pc = "hit"
    /\ op = "read_byte"
    /\ reads' = [reads EXCEPT ![RegAddr(read_source)] = @ + 1]
    /\ last' = [kind |-> "R", addr |-> RegAddr(read_source), val |-> 0]
    /\ pc' = "ret"
    /\ result' = Ok(read_reg(read_source))
    /\ UNCHANGED <<devBase, mem, uart, op, i, to_send, wlog, first_ready>>

----------------------------------------------------------------------------
(* The device: it changes its line status and its receive buffer on its    *)
(* own, between any two register accesses of the driver                    *)

DeviceStatus(v) ==
    /\ mem[devBase + 5] # v
    /\ mem' = [mem EXCEPT ![devBase + 5] = v]
    /\ UNCHANGED <<devBase, uart, op, pc, i, to_send, result, wlog, reads,
                   last, first_ready>>

DeviceData(v) ==
    /\ mem[devBase] # v
    /\ mem' = [mem EXCEPT ![devBase] = v]
    /\ UNCHANGED <<devBase, uart, op, pc, i, to_send, result, wlog, reads,
                   last, first_ready>>

----------------------------------------------------------------------------
(* Specification                                                           *)

\* the driver before construction, with no call made yet
DriverInit ==
    /\ uart = << >>
    /\ op = "none"
    /\ pc = "start"
    /\ i = 0
    /\ to_send = 0
    /\ result = NoResult
    /\ wlog = << >>
    /\ reads = [a \in Window |-> 0]
    /\ last = NoAccess
    /\ first_ready = 0

\* a divisor-latch device in its state after reset
DevReset == [dll |-> 0, dlm |-> 0, ier |-> 0, lcr |-> 0, fcr |-> 0, mcr |-> 0,
             thr |-> 0]

Callers == {"A", "B"}

NoCall == [op |-> "none", pc |-> "idle", i |-> 0, to_send |-> 0,
           result |-> NoResult]

NoHazard == [txlost |-> FALSE, rxdup |-> FALSE]

\* the further variables at rest
ExtIdle ==
    /\ dev = DevReset
    /\ prev_timeout = FALSE
    /\ th = [c \in Callers |-> NoCall]
    /\ hazard = NoHazard

Init ==
    /\ devBase \in BaseAddrs
    /\ \E f \in InitFills, st \in StatusVals :
          mem = [a \in Window |-> IF a - devBase < 5 THEN f
                                  ELSE IF a - devBase = 5 THEN st ELSE 0]
    /\ DriverInit
    /\ ExtIdle

Driver ==
    \/ NewCall
    \/ NewWrite
    \/ Size
    \/ \E x \in TxBytes : SendCall(x)
    \/ SendPoll
    \/ SendWrite
    \/ ReadCall
    \/ ReadPoll
    \/ ReadData

Device ==
    \/ \E v \in StatusVals : DeviceStatus(v)
    \/ \E v \in RxBytes : DeviceData(v)

Next == (Driver \/ Device) /\ UNCHANGED ext

Spec == Init /\ [][Next]_vars

\* a call in progress runs on: the driver is straight-line code and a
\* bounded loop, with no suspension point
FairSpec ==
    Spec /\ WF_vars((NewWrite \/ SendPoll \/ SendWrite \/ ReadPoll \/ ReadData)
                     /\ UNCHANGED ext)

----------------------------------------------------------------------------
(* Observations on the record of the current call                          *)

\* the writes of the current call as <<register offset, value>> pairs
WritesByOffset == [n \in 1..Len(wlog) |-> <<wlog[n].addr - devBase, wlog[n].val>>]

\* number of register reads of the current call, over all registers
RECURSIVE SumReads(_)
SumReads(S) ==
    IF S = {} THEN 0
    ELSE LET a == CHOOSE b \in S : TRUE IN reads[a] + SumReads(S \ {a})

TotalReads == SumReads(Window)

NoReads == \A a \in Window : reads[a] = 0

Returned(o) == op = o /\ pc = "ret"

----------------------------------------------------------------------------
(* C1: UART::new performs exactly eight register writes and no register    *)
(* read, in this order and with these values, whatever the registers held  *)
(* before: offset 1 = 0, offset 3 = 0x80, offset 0 = 3, offset 1 = 0,      *)
(* offset 3 = 0x03, offset 2 = 0xC7, offset 4 = 0x0B, offset 1 = 1.  While *)
(* new runs its writes so far are a prefix of that sequence; when it       *)
(* returns they are the whole of it.                                       *)

C1_Expected ==
    << <<1, 0>>, <<3, 128>>, <<0, 3>>, <<1, 0>>,
       <<3, 3>>, <<2, 199>>, <<4, 11>>, <<1, 1>> >>

C1_NewWriteSequence ==
    op = "new" =>
        /\ NoReads
        /\ Len(wlog) <= 8
        /\ WritesByOffset = SubSeq(C1_Expected, 1, Len(wlog))
        /\ (pc = "ret" <=> Len(wlog) = 8)

\* new has returned, all eight writes made, and the device holds the
\* values written last to each control register
C1_Witness ==
    /\ Returned("new")
    /\ Len(wlog) = 8
    /\ mem[devBase + 1] = 1
    /\ mem[devBase + 2] = 199
    /\ mem[devBase + 3] = 3
    /\ mem[devBase + 4] = 11

----------------------------------------------------------------------------
(* C2: if the device first reports transmit-holding-register-empty (bit 5  *)
(* of LINE_STATUS) on poll k of a send_byte(x) call, 1 <= k <= LOOP_MAX,   *)
(* the call reads LINE_STATUS exactly k times, then writes x to DATA       *)
(* exactly once, makes no further register access and returns Ok.          *)

C2_SendOnFirstEmpty ==
    (op = "send_byte" /\ first_ready >= 1) =>
        /\ first_ready <= LOOP_MAX
        /\ Polls = first_ready
        /\ TotalReads = first_ready
        /\ pc \in {"hit", "ret"}
        /\ pc = "hit" => wlog = << >> /\ last.kind = "R"
        /\ pc = "ret" =>
              /\ WritesByOffset = << <<0, to_send>> >>
              /\ last = [kind |-> "W", addr |-> devBase, val |-> to_send]
              /\ result = Ok(0)

\* a send that found the transmitter empty only on a later poll
C2_Witness ==
    /\ Returned("send_byte")
    /\ first_ready = 7
    /\ to_send = 66
    /\ result.tag = "Ok"

----------------------------------------------------------------------------
(* C3: if the device never reports transmit-holding-register-empty during  *)
(* a send_byte call, the call reads LINE_STATUS exactly LOOP_MAX (1000)    *)
(* times, writes no register and returns Fault::TxNotEmpty.                *)

C3_SendTimeout ==
    (Returned("send_byte") /\ first_ready = 0) =>
        /\ Polls = 1000
        /\ TotalReads = 1000
        /\ wlog = << >>
        /\ result = Err("TxNotEmpty")

\* a send that timed out while the device reported data-ready only
C3_Witness ==
    /\ Returned("send_byte")
    /\ first_ready = 0
    /\ result.tag = "Err"
    /\ mem[devBase + 5] = 1

----------------------------------------------------------------------------
(* C4: if the device first reports data-ready (bit 0 of LINE_STATUS) on    *)
(* poll k of a read_byte call, 1 <= k <= LOOP_MAX, the call reads          *)
(* LINE_STATUS exactly k times, then reads DATA exactly once as its very   *)
(* next register access, and returns Ok with the value DATA held at that   *)
(* read.                                                                   *)

C4_State ==
    (op = "read_byte" /\ first_ready >= 1) =>
        /\ first_ready <= LOOP_MAX
        /\ Polls = first_ready
        /\ pc \in {"hit", "ret"}
        /\ pc = "hit" => TotalReads = first_ready /\ last.addr = devBase + 5
        /\ pc = "ret" =>
              /\ reads[devBase] = 1
              /\ TotalReads = first_ready + 1
              /\ last = [kind |-> "R", addr |-> devBase, val |-> 0]
              /\ wlog = << >>
              /\ result.tag = "Ok"

\* the step in which read_byte returns after having seen data-ready
C4_Return ==
    (op = "read_byte" /\ pc = "hit" /\ pc' = "ret") => result' = Ok(mem[devBase])

C4_ReadOnFirstReady == [](C4_State) /\ [][C4_Return]_vars

\* a read that found data ready on the very last poll of its budget
C4_Witness ==
    /\ Returned("read_byte")
    /\ first_ready = LOOP_MAX
    /\ result.tag = "Ok"
    /\ result.val = 67

----------------------------------------------------------------------------
(* C5: if the device never reports data-ready during a read_byte call, the *)
(* call reads LINE_STATUS exactly LOOP_MAX (1000) times, never reads DATA  *)
(* and returns Fault::DataNotReady.                                        *)

C5_ReadTimeout ==
    (Returned("read_byte") /\ first_ready = 0) =>
        /\ Polls = 1000
        /\ TotalReads = 1000
        /\ reads[devBase] = 0
        /\ wlog = << >>
        /\ result = Err("DataNotReady")

\* a read that timed out while the device reported transmitter-empty only
C5_Witness ==
    /\ Returned("read_byte")
    /\ first_ready = 0
    /\ result.tag = "Err"
    /\ mem[devBase + 5] = 32

----------------------------------------------------------------------------
(* C6: every send_byte and read_byte call terminates, with success or a    *)
(* timeout error, after at most LOOP_MAX (1000) reads of LINE_STATUS,      *)
(* whatever the device's status register does between polls.               *)

C6_Bounded ==
    op \in {"send_byte", "read_byte"} =>
        /\ Polls <= 1000
        /\ i = Polls
        /\ pc = "ret" => result.tag \in {"Ok", "Err"}

C6_InCall == op \in {"send_byte", "read_byte"} /\ pc \in {"poll", "hit"}

C6_Terminates == [](C6_Bounded) /\ (C6_InCall ~> (pc = "ret"))

\* a call that used its whole budget and then returned a timeout, on a
\* device whose status at the end shows both ready bits
C6_Witness ==
    /\ op \in {"send_byte", "read_byte"}
    /\ pc = "ret"
    /\ Polls = LOOP_MAX
    /\ result.tag = "Err"
    /\ mem[devBase + 5] = 33

----------------------------------------------------------------------------
(* C7: a send_byte call writes no register other than DATA, writes DATA at *)
(* most once and only on the path that returns Ok, and reads nothing but   *)
(* LINE_STATUS: never DATA, never the control registers at offsets 1..4.   *)

C7_SendFrame ==
    op = "send_byte" =>
        /\ Len(wlog) <= 1
        /\ \A n \in 1..Len(wlog) : wlog[n].addr = devBase
        /\ Len(wlog) = 1 => pc = "ret" /\ result.tag = "Ok"
        /\ (pc = "ret" /\ result.tag = "Err") => wlog = << >>
        /\ \A a \in Window : a # devBase + 5 => reads[a] = 0

\* the driver's steps of a send_byte call leave offsets 1..4 alone
C7_ControlUntouched ==
    (op = "send_byte" /\ op' = "send_byte") =>
        \A r \in 1..4 : mem'[devBase + r] = mem[devBase + r]

C7_SendTouchesOnlyData == [](C7_SendFrame) /\ [][C7_ControlUntouched]_vars

\* a send of 0x41 that succeeded on its third poll
C7_Witness ==
    /\ Returned("send_byte")
    /\ result.tag = "Ok"
    /\ Len(wlog) = 1
    /\ to_send = 65
    /\ Polls = 3

----------------------------------------------------------------------------
(* C8: round trip over the register file: send_byte(x) that sees the       *)
(* transmit-empty bit returns Ok and leaves DATA equal to x; a read_byte   *)
(* that sees the data-ready bit while DATA holds y returns Ok(y);          *)
(* read_byte writes no register, so it changes nothing in the register     *)
(* file.                                                                   *)

C8_SendStep ==
    (op = "send_byte" /\ pc = "hit" /\ pc' = "ret") =>
        result' = Ok(0) /\ mem'[devBase] = to_send

C8_ReadStep ==
    (op = "read_byte" /\ pc = "hit" /\ pc' = "ret") =>
        result' = Ok(mem[devBase]) /\ mem' = mem

\* a step of the driver inside read_byte changes no register
C8_ReadWritesNothing ==
    (op = "read_byte" /\ op' = "read_byte" /\ reads' # reads) => mem' = mem

C8_RoundTrip ==
    /\ []((op = "send_byte" /\ first_ready = 1) => pc \in {"hit", "ret"})
    /\ []((Returned("send_byte") /\ first_ready = 1) => result = Ok(0))
    /\ []((Returned("read_byte") /\ first_ready = 1) => result.tag = "Ok")
    /\ [](op = "read_byte" => wlog = << >>)
    /\ [][C8_SendStep /\ C8_ReadStep /\ C8_ReadWritesNothing]_vars

\* read_byte returned 0x41 on its first poll: the device never puts 0x41
\* in DATA, so it is the byte an earlier send_byte left there
C8_Witness ==
    /\ Returned("read_byte")
    /\ first_ready = 1
    /\ result = Ok(65)

----------------------------------------------------------------------------
(* C9: UART::new returns Ok for every base address and every device state: *)
(* no construction returns a Fault, and construction reads nothing from    *)
(* the device.                                                             *)

C9_NewAlwaysOk ==
    op = "new" =>
        /\ NoReads
        /\ result.tag # "Err"
        /\ uart = << [base_addr |-> devBase] >>
        /\ pc = "ret" => result = Ok(devBase)

\* construction at the second base address has returned
C9_Witness ==
    /\ Returned("new")
    /\ result.tag = "Ok"
    /\ devBase = 268435712
    /\ mem[devBase + 5] = 222

----------------------------------------------------------------------------
(* C10: size() returns 8 in every reachable state, after any sequence of   *)
(* send_byte, read_byte and size calls, and makes no register access.      *)

C10_State ==
    op = "size" =>
        /\ pc = "ret"
        /\ result = Plain(8)
        /\ NoReads
        /\ wlog = << >>
        /\ last = NoAccess

\* the size() step leaves the register file as it was
C10_Step == (op' = "size" /\ op # "size") => mem' = mem

C10_SizeIsEight == [](C10_State) /\ [][C10_Step]_vars

\* size() called after a successful send_byte(0x41)
C10_Witness ==
    /\ Returned("size")
    /\ result.val = 8
    /\ mem[devBase] = 65

----------------------------------------------------------------------------
(* The 16550 register map with its divisor latch: while bit 7 of the line  *)
(* control register (DLAB) is set, offsets 0 and 1 address the divisor     *)
(* latch; otherwise they address the data and interrupt-enable registers.  *)
(* The device dev sits behind the same bus as the register file mem and    *)
(* receives every write UART::new makes.                                   *)

Dlab(d) == (d.lcr \div 128) % 2 = 1

\* the device after a write of val at offset reg
DevWrite(d, reg, val) ==
    IF reg = 0 THEN (IF Dlab(d) THEN [d EXCEPT !.dll = val]
                                ELSE [d EXCEPT !.thr = val])
    ELSE IF reg = 1 THEN (IF Dlab(d) THEN [d EXCEPT !.dlm = val]
                                     ELSE [d EXCEPT !.ier = val])
    ELSE IF reg = 2 THEN [d EXCEPT !.fcr = val]
    ELSE IF reg = 3 THEN [d EXCEPT !.lcr = val]
    ELSE IF reg = 4 THEN [d EXCEPT !.mcr = val]
    ELSE d

\* the 16 bit divisor the device divides its clock by
Divisor(d) == d.dlm * 256 + d.dll

\* the device as whatever ran before the driver left it
DlabInit ==
    /\ devBase \in BaseAddrs
    /\ \E st \in StatusVals :
          mem = [a \in Window |-> IF a - devBase = 5 THEN st ELSE 0]
    /\ DriverInit
    /\ dev \in [dll : InitFills, dlm : InitFills, ier : InitFills,
                lcr : InitFills, fcr : InitFills, mcr : InitFills,
                thr : InitFills]
    /\ prev_timeout = FALSE
    /\ th = [c \in Callers |-> NoCall]
    /\ hazard = NoHazard

\* UART::new, again and again, on the divisor-latch device
DlabNewCall == NewCall /\ UNCHANGED ext

DlabNewWrite ==
    /\ NewWrite
    /\ dev' = DevWrite(dev, last'.addr - devBase, last'.val)
    /\ UNCHANGED <<prev_timeout, th, hazard>>

\* the line status changes under the driver's feet; new never looks
DlabDevice == (\E v \in StatusVals : DeviceStatus(v)) /\ UNCHANGED ext

DlabNext == DlabNewCall \/ DlabNewWrite \/ DlabDevice

DlabSpec == DlabInit /\ [][DlabNext]_vars

----------------------------------------------------------------------------
(* C11: on the divisor-latch device, the two divisor writes of UART::new   *)
(* happen only while DLAB is set and never land in DATA or IRQ_ENABLE; the *)
(* final IRQ_ENABLE write happens only after DLAB has been cleared and     *)
(* never lands in the divisor; when new returns the device holds           *)
(* divisor = 0x0003, LINE_CONTROL = 0x03, FIFO_CONTROL = 0xC7,             *)
(* MODEM_CONTROL = 0x0B and IRQ_ENABLE = 1.                                *)

\* the third and fourth writes of new are the divisor writes
C11_DivisorWrites ==
    /\ (op = "new" /\ i = 2 /\ i' = 3) =>
           Dlab(dev) /\ dev' = [dev EXCEPT !.dll = 3]
    /\ (op = "new" /\ i = 3 /\ i' = 4) =>
           Dlab(dev) /\ dev' = [dev EXCEPT !.dlm = 0]

\* the eighth write of new is the final IRQ_ENABLE write
C11_FinalIrqWrite ==
    (op = "new" /\ i = 7 /\ i' = 8) =>
        ~Dlab(dev) /\ dev' = [dev EXCEPT !.ier = 1]

C11_AtReturn ==
    Returned("new") =>
        /\ Divisor(dev) = 3
        /\ dev.lcr = 3
        /\ dev.fcr = 199
        /\ dev.mcr = 11
        /\ dev.ier = 1

C11_DlabDiscipline ==
    [](C11_AtReturn) /\ [][C11_DivisorWrites /\ C11_FinalIrqWrite]_vars

\* new has returned on a device it found with 0xFF in its transmit
\* register: the device is programmed and that register was never written
C11_Witness ==
    /\ Returned("new")
    /\ Divisor(dev) = 3
    /\ dev.ier = 1
    /\ dev.lcr = 3
    /\ dev.thr = 255

----------------------------------------------------------------------------
(* C12: on the divisor-latch device, the interrupt-enable register is 0 in *)
(* every state of UART::new from just after its first write until just     *)
(* before its last write, and the offset-1 write of the divisor high byte  *)
(* does not change the interrupt-enable register.                          *)

C12_IrqOff == (op = "new" /\ i \in 1..7) => dev.ier = 0

C12_HighByteWrite == (op = "new" /\ i = 3 /\ i' = 4) => dev'.ier = dev.ier

C12_IrqOffDuringNew == [](C12_IrqOff) /\ [][C12_HighByteWrite]_vars

----------------------------------------------------------------------------
(* A device that clears transmit-holding-register-empty only in response   *)
(* to a write of its data register, and sets it again on its own.  Calls   *)
(* are serialized: the one caller of Driver.                               *)

\* the device shows its transmit holding register empty in status value v
Thre(v) == (v \div 32) % 2 = 1

\* the device shows a received byte ready in status value v
Dr(v) == v % 2 = 1

\* the status changes on the device's own account: never from empty to full
ThreDeviceOwn(v) ==
    /\ Thre(mem[devBase + 5]) => Thre(v)
    /\ DeviceStatus(v)

\* the holding register fills in response to the byte send_byte has just
\* written, before any further access of the driver
ThreDeviceTaken(v) ==
    /\ op = "send_byte" /\ pc = "ret"
    /\ last.kind = "W" /\ last.addr = devBase
    /\ Thre(mem[devBase + 5]) /\ ~Thre(v)
    /\ DeviceStatus(v)

ThreDevice ==
    \/ \E v \in StatusVals : ThreDeviceOwn(v)
    \/ \E v \in StatusVals : ThreDeviceTaken(v)
    \/ \E v \in RxBytes : DeviceData(v)

ThreNext == (Driver \/ ThreDevice) /\ UNCHANGED ext

ThreSpec == Init /\ [][ThreNext]_vars

----------------------------------------------------------------------------
(* C13: with serialized calls and a device that clears                     *)
(* transmit-holding-register-empty only in response to a DATA write, every *)
(* DATA write of send_byte is made in a state where the device's bit is    *)
(* set, over any sequence of send_byte and read_byte calls: the write is   *)
(* the register access right after the poll that observed the bit.         *)

\* between the observing poll and the write the bit stays set
C13_Observed ==
    (op = "send_byte" /\ pc = "hit") =>
        /\ Thre(mem[devBase + 5])
        /\ last = [kind |-> "R", addr |-> devBase + 5, val |-> 0]
        /\ first_ready = Polls

\* the step that writes DATA
C13_WriteStep ==
    (op = "send_byte" /\ op' = "send_byte" /\ Len(wlog') > Len(wlog)) =>
        /\ Thre(mem[devBase + 5])
        /\ last = [kind |-> "R", addr |-> devBase + 5, val |-> 0]
        /\ wlog' = << [addr |-> devBase, val |-> to_send] >>

C13_WriteWhenEmpty ==
    [](C13_Observed) /\ [][C13_WriteStep]_vars

\* a send that waited for the device to empty its holding register, wrote,
\* and whose byte the device has taken: the bit is clear again
C13_Witness ==
    /\ Returned("send_byte")
    /\ result.tag = "Ok"
    /\ Polls = 4
    /\ ~Thre(mem[devBase + 5])
    /\ mem[devBase] = to_send

----------------------------------------------------------------------------
(* Two callers on one UART.  send_byte and read_byte take &self, so two    *)
(* callers may be inside them at once; each caller runs the code of the    *)
(* call on its own loop counter.  Each caller makes one send_byte call and *)
(* then one read_byte call.  The device starts idle with a received byte   *)
(* pending; a write of DATA fills its transmit holding register, a read of *)
(* DATA empties its receive buffer, and it empties the one and fills the   *)
(* other on its own.                                                       *)

\* fault: a caller holds a lock from the poll that found the device ready
\* to its access of DATA
MayStep_Locked(c) == \A o \in Callers \ {c} : th[o].pc # "hit"

\* send_byte and read_byte take &self and acquire nothing: a caller's next
\* register access never waits for another caller
MayStep(c) == TRUE

\* status value v with the transmit-holding-register-empty bit cleared
ClearThre(v) == IF Thre(v) THEN v - 32 ELSE v

\* status value v with the data-ready bit cleared
ClearDr(v) == IF Dr(v) THEN v - 1 ELSE v

CSendCall(c, x) ==
    /\ pc = "ret" /\ uart # << >>
    /\ th[c].op = "none"
    /\ th' = [th EXCEPT ![c] = [op |-> "send_byte", pc |-> "poll", i |-> 0,
                                to_send |-> x, result |-> NoResult]]
    /\ UNCHANGED <<devBase, mem, uart, op, pc, i, to_send, result, wlog,
                   reads, last, first_ready, dev, prev_timeout, hazard>>

CReadCall(c) ==
    /\ pc = "ret" /\ uart # << >>
    /\ th[c].op = "send_byte" /\ th[c].pc = "ret"
    /\ th' = [th EXCEPT ![c] = [op |-> "read_byte", pc |-> "poll", i |-> 0,
                                to_send |-> 0, result |-> NoResult]]
    /\ UNCHANGED <<devBase, mem, uart, op, pc, i, to_send, result, wlog,
                   reads, last, first_ready, dev, prev_timeout, hazard>>

\* one iteration of caller c's loop, up to its access of DATA
CPoll(c) ==
    /\ th[c].pc = "poll"
    /\ th[c].i < LOOP_MAX
    /\ MayStep(c)
    /\ LET val == read_reg(REG_LINE_STATUS)
           ready == IF th[c].op = "send_byte" THEN is_transmit_empty(val)
                                              ELSE is_data_ready(val)
           timeout == IF th[c].op = "send_byte" THEN send_timeout
                                                ELSE read_timeout
       IN th' = [th EXCEPT ![c] =
                   IF ready THEN [@ EXCEPT !.i = @ + 1, !.pc = "hit"]
                   ELSE IF th[c].i + 1 < LOOP_MAX
                        THEN [@ EXCEPT !.i = @ + 1]
                        ELSE [@ EXCEPT !.i = @ + 1, !.pc = "ret",
                                       !.result = timeout]]
    /\ UNCHANGED <<devBase, mem, uart, op, pc, i, to_send, result, wlog,
                   reads, last, first_ready, dev, prev_timeout, hazard>>

\* caller c's self.write_reg(REG_DATA, to_send); return Ok(());
\* the device takes the byte: its holding register is full
CSendWrite(c) ==
    /\ th[c].pc = "hit" /\ th[c].op = "send_byte"
    /\ MayStep(c)
    /\ LET w == send_write(th[c].to_send) IN
       mem' = [mem EXCEPT ![RegAddr(w.reg)] = w.val,
                          ![devBase + 5] = ClearThre(@)]
    /\ hazard' = [hazard EXCEPT !.txlost = @ \/ ~Thre(mem[devBase + 5])]
    /\ th' = [th EXCEPT ![c] = [@ EXCEPT !.pc = "ret", !.result = Ok(0)]]
    /\ UNCHANGED <<devBase, uart, op, pc, i, to_send, result, wlog, reads,
                   last, first_ready, dev, prev_timeout>>

\* caller c's return Ok(self.read_reg(REG_DATA));
\* the device hands the byte over: its receive buffer is empty
CReadData(c) ==
    /\ th[c].pc = "hit" /\ th[c].op = "read_byte"
    /\ MayStep(c)
    /\ mem' = [mem EXCEPT ![devBase + 5] = ClearDr(@)]
    /\ hazard' = [hazard EXCEPT !.rxdup = @ \/ ~Dr(mem[devBase + 5])]
    /\ th' = [th EXCEPT ![c] = [@ EXCEPT !.pc = "ret",
                                         !.result = Ok(read_reg(read_source))]]
    /\ UNCHANGED <<devBase, uart, op, pc, i, to_send, result, wlog, reads,
                   last, first_ready, dev, prev_timeout>>

\* the next register access of caller c
CallerStep(c) == CPoll(c) \/ CSendWrite(c) \/ CReadData(c)

\* the device has shifted the byte out: the holding register is empty
ConcDeviceSent ==
    /\ ~Thre(mem[devBase + 5])
    /\ mem' = [mem EXCEPT ![devBase + 5] = @ + 32]
    /\ UNCHANGED <<devBase, uart, op, pc, i, to_send, result, wlog, reads,
                   last, first_ready, dev, prev_timeout, th, hazard>>

\* the device has received byte v
ConcDeviceReceived(v) ==
    /\ ~Dr(mem[devBase + 5])
    /\ mem' = [mem EXCEPT ![devBase] = v, ![devBase + 5] = @ + 1]
    /\ UNCHANGED <<devBase, uart, op, pc, i, to_send, result, wlog, reads,
                   last, first_ready, dev, prev_timeout, th, hazard>>

\* an idle device with a received byte pending: status 0x21
ConcInit == Init /\ Thre(mem[devBase + 5]) /\ Dr(mem[devBase + 5])

ConcNext ==
    \/ pc = "start" /\ NewCall /\ UNCHANGED ext
    \/ NewWrite /\ UNCHANGED ext
    \/ \E c \in Callers, x \in TxBytes : CSendCall(c, x)
    \/ \E c \in Callers : CReadCall(c)
    \/ \E c \in Callers : CPoll(c)
    \/ \E c \in Callers : CSendWrite(c)
    \/ \E c \in Callers : CReadData(c)
    \/ ConcDeviceSent
    \/ \E v \in RxBytes : ConcDeviceReceived(v)

ConcSpec == ConcInit /\ [][ConcNext]_vars

----------------------------------------------------------------------------
(* C14: the driver has no lock.  With two callers inside send_byte (or     *)
(* read_byte) on one device, the register accesses interleave freely: a    *)
(* caller inside a call can always make its next access, wherever the      *)
(* other caller stands.  So both can observe the same transmit-empty       *)
(* status and both write DATA, the second write reaching a holding         *)
(* register that is already full, and both can observe one data-ready      *)
(* status and both read DATA.  A write to a full holding register happens  *)
(* only when the other caller's write came between this caller's poll and  *)
(* its write; likewise for a read of an empty receive buffer.              *)

C14_NeverWaits ==
    \A c \in Callers : th[c].pc \in {"poll", "hit"} => ENABLED CallerStep(c)

\* caller o has completed a successful call of operation o_op
C14_HasDone(o, o_op) ==
    \/ th[o].op = o_op /\ th[o].pc = "ret" /\ th[o].result.tag = "Ok"
    \/ o_op = "send_byte" /\ th[o].op = "read_byte"

\* the step in which the device first loses a byte, or first hands one out
\* twice, is the DATA access of a caller whose poll the other caller's
\* DATA access has overtaken
C14_OnlyByRace ==
    /\ (~hazard.txlost /\ hazard'.txlost) =>
          \E c \in Callers, o \in Callers :
             /\ c # o
             /\ th[c].op = "send_byte" /\ th[c].pc = "hit" /\ th'[c].pc = "ret"
             /\ C14_HasDone(o, "send_byte")
    /\ (~hazard.rxdup /\ hazard'.rxdup) =>
          \E c \in Callers, o \in Callers :
             /\ c # o
             /\ th[c].op = "read_byte" /\ th[c].pc = "hit" /\ th'[c].pc = "ret"
             /\ C14_HasDone(o, "read_byte")

C14_NoLock == [](C14_NeverWaits) /\ [][C14_OnlyByRace]_vars

\* both callers have sent and read with success, each on its first poll,
\* yet the device lost one byte sent and handed one received byte out twice
C14_Witness ==
    /\ hazard.txlost
    /\ hazard.rxdup
    /\ \A c \in Callers :
          /\ th[c].op = "read_byte" /\ th[c].pc = "ret"
          /\ th[c].result.tag = "Ok"
          /\ th[c].i = 1
    /\ th["A"].result.val = th["B"].result.val

----------------------------------------------------------------------------
(* The single caller again, with the outcome of its previous send_byte or  *)
(* read_byte call remembered.                                              *)

\* a send_byte or read_byte call begins in this step
CallBegins == pc = "ret" /\ pc' = "poll"

HistNext ==
    /\ Driver \/ Device
    /\ prev_timeout' = IF CallBegins
                       THEN op \in {"send_byte", "read_byte"} /\ result.tag = "Err"
                       ELSE prev_timeout
    /\ UNCHANGED <<dev, th, hazard>>

HistSpec == Init /\ [][HistNext]_vars

----------------------------------------------------------------------------
(* C15: the driver keeps no state between calls.  Over any sequence of     *)
(* send_byte and read_byte calls each call starts with a fresh budget of   *)
(* LOOP_MAX polls and its result depends only on the LINE_STATUS (and      *)
(* DATA) values it observed itself; a call that timed out is not retried   *)
(* and leaves nothing latched, so the next call on a device that is then   *)
(* ready succeeds on its first poll.                                       *)

\* the handle is the base address and nothing else, and never changes
C15_HandleFixed == uart # << >> => uart' = uart

\* whatever the previous call did, this call has used as much of its
\* budget as it made polls, and its outcome is the one its own polls give
C15_OwnPollsDecide ==
    op \in {"send_byte", "read_byte"} =>
        /\ i = Polls
        /\ first_ready = 1 => pc \in {"hit", "ret"} /\ Polls = 1
        /\ (pc = "ret" /\ first_ready >= 1) => result.tag = "Ok"
        /\ (pc = "ret" /\ first_ready = 0) =>
              /\ Polls = LOOP_MAX
              /\ result = Err(IF op = "send_byte" THEN "TxNotEmpty"
                                                  ELSE "DataNotReady")

\* a call begins with nothing carried over
C15_FreshStart == CallBegins => (i' = 0 /\ first_ready' = 0 /\ wlog' = << >>)

C15_Stateless ==
    [](C15_OwnPollsDecide) /\ [][C15_HandleFixed /\ C15_FreshStart]_vars

\* right after a call that timed out, a send found the device ready on its
\* first poll and succeeded
C15_Witness ==
    /\ prev_timeout
    /\ Returned("send_byte")
    /\ first_ready = 1
    /\ Polls = 1
    /\ result = Ok(0)

----------------------------------------------------------------------------
(* The single caller on a device whose line status holds one value for the *)
(* whole run, any of the 256 a byte can take.                              *)

BitInit ==
    /\ devBase \in BaseAddrs
    /\ \E st \in Byte :
          mem = [a \in Window |-> IF a - devBase = 5 THEN st ELSE 0]
    /\ DriverInit
    /\ ExtIdle

BitNext == Driver /\ UNCHANGED ext

BitSpec == BitInit /\ [][BitNext]_vars

----------------------------------------------------------------------------
(* C16: each poll tests exactly one bit of LINE_STATUS and ignores all the *)
(* others: send_byte treats the device as ready if and only if bit 5       *)
(* (0x20) of the value read is set, read_byte if and only if bit 0 (0x01)  *)
(* is set, for every 8 bit status value; so a status of 0x01 alone makes   *)
(* send_byte time out and a status of 0x20 alone makes read_byte time out. *)

\* the outcome of a call that has polled, on a device whose bit is set
C16_Ready ==
    /\ pc \in {"hit", "ret"}
    /\ Polls = 1
    /\ pc = "ret" => result.tag = "Ok"

\* the outcome of a call that has polled, on a device whose bit is clear
C16_NotReady(fault) ==
    /\ pc \in {"poll", "ret"}
    /\ pc = "ret" => Polls = LOOP_MAX /\ result = Err(fault)

C16_OneBitDecides ==
    /\ (op = "send_byte" /\ Polls >= 1) =>
          IF Thre(mem[devBase + 5]) THEN C16_Ready
                                    ELSE C16_NotReady("TxNotEmpty")
    /\ (op = "read_byte" /\ Polls >= 1) =>
          IF Dr(mem[devBase + 5]) THEN C16_Ready
                                  ELSE C16_NotReady("DataNotReady")

\* send_byte has timed out on a device whose status was 0x01 throughout
C16_Witness ==
    /\ Returned("send_byte")
    /\ mem[devBase + 5] = 1
    /\ Polls = LOOP_MAX
    /\ result = Err("TxNotEmpty")

----------------------------------------------------------------------------
(* C17: after any sequence of operations base_addr equals the value passed *)
(* to UART::new, and every register access the driver has made is a one    *)
(* byte access at base_addr + offset with offset in 0..5, so inside the    *)
(* 8 byte window size() reports; offsets 6 and 7 are never accessed.       *)

\* the offsets the driver uses
C17_Used == 0..5

C17_Accesses ==
    /\ uart # << >> => self.base_addr = devBase
    /\ \A n \in 1..Len(wlog) :
          /\ wlog[n].addr - devBase \in C17_Used
          /\ wlog[n].addr < devBase + size
          /\ wlog[n].val \in Byte
    /\ \A a \in Window : reads[a] > 0 => a - devBase \in C17_Used
    /\ last.kind # "none" =>
          last.addr - devBase \in C17_Used /\ last.addr < devBase + size
    /\ mem[devBase + 6] = 0
    /\ mem[devBase + 7] = 0

\* the handle never changes, and a step leaves offsets 6 and 7 alone
C17_Step ==
    /\ uart # << >> => uart' = uart
    /\ mem'[devBase + 6] = mem[devBase + 6]
    /\ mem'[devBase + 7] = mem[devBase + 7]

C17_InsideWindow == [](C17_Accesses) /\ [][C17_Step]_vars

\* a read_byte on the device at the second base address that polled its
\* whole budget, found data on the last poll and read DATA
C17_Witness ==
    /\ Returned("read_byte")
    /\ self.base_addr = 268435712
    /\ reads[self.base_addr + 5] = LOOP_MAX
    /\ reads[self.base_addr] = 1
    /\ last.addr = self.base_addr

====
